---------------------------- MODULE Spec2Model ----------------------------
(***************************************************************************)
(* Model of klippy/extras/display/vin_display.py: the framed command       *)
(* protocol between the host and the display/knob/button/buzzer            *)
(* peripheral.  Bytes are naturals 0..255, byte strings are sequences      *)
(* (Python index i is TLA+ index i + 1).                                   *)
(***************************************************************************)
EXTENDS Integers, Sequences, FiniteSets, TLC

(***************************************************************************)
(* Module constants.                                                       *)
(***************************************************************************)
MESSAGE_MIN == 5
MESSAGE_MAX == 128
MESSAGE_SYNC == 126

CMD_DISPLAY_TEXT == 10
CMD_KNOB_EVENT == 12
CMD_BUTTON_EVENT == 13
CMD_BUZZER_PLAY == 14
CMD_BUZZER_QUEUE == 15
CMD_BUZZER_EVENT == 16

(***************************************************************************)
(* Bounds of the model.                                                    *)
(***************************************************************************)
\* number of bytes the peripheral sends while the reader thread runs alone
MaxStreamLen == 14
\* number of bytes the peripheral sends while another thread calls in
MaxSharedStreamLen == 7
\* number of commands the other caller sends
MaxSends == 1
\* largest number of bytes one transport read returns
MaxChunk == 2
\* last clock reading, in ticks
MaxTime == 3

\* number of bytes of a crc16_ccitt argument
MaxCrcLen == 3

\* clock ticks per second: time() is read in half seconds
TicksPerSecond == 2

(***************************************************************************)
(* Python's integer operators on naturals.                                 *)
(***************************************************************************)
RECURSIVE BitXor(_, _)
BitXor(a, b) ==
    IF a = 0 THEN b
    ELSE IF b = 0 THEN a
    ELSE (((a % 2) + (b % 2)) % 2) + 2 * BitXor(a \div 2, b \div 2)

RECURSIVE BitOr(_, _)
BitOr(a, b) ==
    IF a = 0 THEN b
    ELSE IF b = 0 THEN a
    ELSE (IF (a % 2) + (b % 2) > 0 THEN 1 ELSE 0) + 2 * BitOr(a \div 2, b \div 2)

\* buf[i:j] of Python, 0 <= i, clipped to the sequence
Slice(buf, i, j) ==
    LET hi == IF j > Len(buf) THEN Len(buf) ELSE j
    IN  IF i >= hi THEN << >> ELSE SubSeq(buf, i + 1, hi)

(***************************************************************************)
(* crc16_ccitt: the loop body, the loop, and the returned byte pair.       *)
(***************************************************************************)
\* CrcStep without the & 0x0f of line 27
CrcStep_NoNibbleMask(crc, byte) ==
    LET d1 == BitXor(byte, crc % 256)
        d2 == BitXor(d1, d1 * 16)
    IN  BitXor(BitXor(BitOr(d2 * 256, crc \div 256), d2 \div 16), d2 * 8)

CrcStep(crc, byte) ==
    LET d1 == BitXor(byte, crc % 256)
        d2 == BitXor(d1, (d1 % 16) * 16)
    IN  BitXor(BitXor(BitOr(d2 * 256, crc \div 256), d2 \div 16), d2 * 8)

RECURSIVE CrcLoop(_, _)
CrcLoop(crc, buf) ==
    IF buf = << >> THEN crc
    ELSE LET next == CrcStep(crc, Head(buf))
         IN  \* the comparison has next computed before the loop goes on
             IF next >= 0 THEN CrcLoop(next, Tail(buf)) ELSE next

crc16_ccitt(buf) ==
    LET crc == CrcLoop(65535, buf)
    IN  << crc \div 256, crc % 256 >>

(***************************************************************************)
(* What the peripheral can put on the link.  A frame is                    *)
(* [length, command id, payload.., crc hi, crc lo, sync].                  *)
(***************************************************************************)
\* ButtonEvent, state 1 and state 0
BtnPress == << 6, 13, 1, 78, 27, 126 >>
BtnRelease == << 6, 13, 0, 95, 146, 126 >>
\* BtnPress with the low bit of its payload byte flipped: the CRC fails
BtnPressFlipped == << 6, 13, 0, 78, 27, 126 >>
\* KnobEvent, positions 0, 3 and -1
KnobAt0 == << 7, 12, 0, 0, 241, 163, 126 >>
KnobAt3 == << 7, 12, 3, 0, 219, 203, 126 >>
KnobAtMinus1 == << 7, 12, 255, 255, 1, 27, 126 >>
\* a CRC-valid frame of 5 bytes carrying the KnobEvent id and no position
KnobShort == << 5, 12, 68, 108, 126 >>
\* BuzzerEvent, status 1
BuzzerFree == << 6, 16, 1, 107, 242, 126 >>
\* a CRC-valid frame with the unassigned command id 99
UnknownCmd == << 5, 99, 223, 157, 126 >>
\* noise: sync bytes, bytes that are no length
SyncNoise == << 126, 126, 126 >>
RangeNoise == << 0, 200, 3 >>
\* noise whose last byte reads as a length of 12
LengthNoise == << 200, 12 >>

\* n zero bytes
Zeros(n) == [i \in 1..n |-> 0]

\* a frame of MESSAGE_MAX bytes with an unknown command id
MaxFrame == << 128, 99 >> \o Zeros(123) \o << 95, 97, 126 >>

\* 126 bytes shaped as a frame whose length byte is the sync byte: the CRC
\* of the first 123 bytes in place, a sync byte at the end
SyncLengthRun == << 126 >> \o Zeros(122) \o << 126, 149, 126 >>

\* an out-of-range byte followed by MESSAGE_MAX zero bytes
OverlongRun == << 200 >> \o Zeros(128)

\* the long byte streams
LongStreams == { MaxFrame, SyncLengthRun, OverlongRun }

Pieces ==
    { BtnPress, BtnRelease, BtnPressFlipped, KnobAt0, KnobAt3, KnobAtMinus1,
      KnobShort, BuzzerFree, UnknownCmd, SyncNoise, RangeNoise, LengthNoise }

\* the byte streams of at most n bytes made of pieces
RECURSIVE Streams(_)
Streams(n) ==
    { << >> } \cup
    UNION { { p \o s : s \in Streams(n - Len(p)) } : p \in { q \in Pieces : Len(q) <= n } }

(***************************************************************************)
(* State.                                                                  *)
(***************************************************************************)
VARIABLES
    link,            \* bytes the peripheral has sent and dev.read() has not returned
    rdata,           \* self.rdata
    in_commands,     \* self.in_commands
    pc,              \* where the reader thread is: read, parse, dispatch, dead
    raised,          \* the exception that ended the reader thread
    last_knob_pos,   \* self.last_knob_pos
    last_btn_state,  \* self.last_btn_state
    last_btn_time,   \* self.last_btn_time
    clock,           \* the latest value time() returned
    events,          \* the calls of self.menu_key_callback, in order
    buffer,          \* self.buffer, the display surface
    wire,            \* the arguments of self.dev.write, in order
    calls,           \* number of commands the other caller has sent
    sends,           \* history: the payloads the command builders returned
    received,        \* history: every byte dev.read() has returned
    decoded,         \* history: every frame appended to in_commands
    dispatched,      \* history: every frame popped by dispatch_in_commands
    crc_run,         \* crc16_ccitt's local crc, while a call is followed byte by byte
    crc_len          \* the number of bytes that call has consumed

vars ==
    << link, rdata, in_commands, pc, raised, last_knob_pos, last_btn_state,
       last_btn_time, clock, events, buffer, wire, calls, sends, received,
       decoded, dispatched, crc_run, crc_len >>

\* the variables of a crc16_ccitt call followed on its own
crcVars == << crc_run, crc_len >>

\* everything else
programVars ==
    << link, rdata, in_commands, pc, raised, last_knob_pos, last_btn_state,
       last_btn_time, clock, events, buffer, wire, calls, sends, received,
       decoded, dispatched >>

(***************************************************************************)
(* parse_incoming_data.  ParseDecision is what the loop does with the      *)
(* buffer as it stands: "stop" (the while condition fails, or the break),  *)
(* "drop" (one of the four branches that remove the head byte and          *)
(* continue) or "emit" (the frame is appended and removed).  ParseIter is  *)
(* one iteration that stays in the loop; parse_incoming_data is the call.  *)
(***************************************************************************)
\* ParseDecision without the CRC comparison
ParseDecision_NoCrc(rd) ==
    IF Len(rd) < MESSAGE_MIN THEN "stop"
    ELSE IF rd[1] = MESSAGE_SYNC THEN "drop"
    ELSE IF ~(MESSAGE_MIN <= rd[1] /\ rd[1] <= MESSAGE_MAX) THEN "drop"
    ELSE IF rd[1] > Len(rd) THEN "stop"
    ELSE IF rd[rd[1]] # MESSAGE_SYNC THEN "drop"
    ELSE "emit"

\* ParseDecision dropping the head byte where the code breaks out of the loop
ParseDecision_DropShort(rd) ==
    IF Len(rd) < MESSAGE_MIN THEN "stop"
    ELSE IF rd[1] = MESSAGE_SYNC THEN "drop"
    ELSE IF ~(MESSAGE_MIN <= rd[1] /\ rd[1] <= MESSAGE_MAX) THEN "drop"
    ELSE IF rd[1] > Len(rd) THEN "drop"
    ELSE IF rd[rd[1]] # MESSAGE_SYNC THEN "drop"
    ELSE IF crc16_ccitt(Slice(rd, 0, rd[1] - 3)) # Slice(rd, rd[1] - 3, rd[1] - 1)
         THEN "drop"
    ELSE "emit"

\* ParseDecision without the test for a sync byte at the head
ParseDecision_KeepSync(rd) ==
    IF Len(rd) < MESSAGE_MIN THEN "stop"
    ELSE IF ~(MESSAGE_MIN <= rd[1] /\ rd[1] <= MESSAGE_MAX) THEN "drop"
    ELSE IF rd[1] > Len(rd) THEN "stop"
    ELSE IF rd[rd[1]] # MESSAGE_SYNC THEN "drop"
    ELSE IF crc16_ccitt(Slice(rd, 0, rd[1] - 3)) # Slice(rd, rd[1] - 3, rd[1] - 1)
         THEN "drop"
    ELSE "emit"

\* ParseDecision breaking out of the loop when the head byte equals the
\* number of bytes buffered
ParseDecision_StopAtFull(rd) ==
    IF Len(rd) < MESSAGE_MIN THEN "stop"
    ELSE IF rd[1] = MESSAGE_SYNC THEN "drop"
    ELSE IF ~(MESSAGE_MIN <= rd[1] /\ rd[1] <= MESSAGE_MAX) THEN "drop"
    ELSE IF rd[1] >= Len(rd) THEN "stop"
    ELSE IF rd[rd[1]] # MESSAGE_SYNC THEN "drop"
    ELSE IF crc16_ccitt(Slice(rd, 0, rd[1] - 3)) # Slice(rd, rd[1] - 3, rd[1] - 1)
         THEN "drop"
    ELSE "emit"

\* ParseDecision taking any head byte of MESSAGE_MIN or more as a length
ParseDecision_NoUpperBound(rd) ==
    IF Len(rd) < MESSAGE_MIN THEN "stop"
    ELSE IF rd[1] = MESSAGE_SYNC THEN "drop"
    ELSE IF ~(MESSAGE_MIN <= rd[1]) THEN "drop"
    ELSE IF rd[1] > Len(rd) THEN "stop"
    ELSE IF rd[rd[1]] # MESSAGE_SYNC THEN "drop"
    ELSE IF crc16_ccitt(Slice(rd, 0, rd[1] - 3)) # Slice(rd, rd[1] - 3, rd[1] - 1)
         THEN "drop"
    ELSE "emit"

\* ParseDecision dropping a sync byte at the head only when another sync
\* byte follows it
ParseDecision_SyncPairOnly(rd) ==
    IF Len(rd) < MESSAGE_MIN THEN "stop"
    ELSE IF rd[1] = MESSAGE_SYNC /\ rd[2] = MESSAGE_SYNC THEN "drop"
    ELSE IF ~(MESSAGE_MIN <= rd[1] /\ rd[1] <= MESSAGE_MAX) THEN "drop"
    ELSE IF rd[1] > Len(rd) THEN "stop"
    ELSE IF rd[rd[1]] # MESSAGE_SYNC THEN "drop"
    ELSE IF crc16_ccitt(Slice(rd, 0, rd[1] - 3)) # Slice(rd, rd[1] - 3, rd[1] - 1)
         THEN "drop"
    ELSE "emit"

ParseDecision(rd) ==
    IF Len(rd) < MESSAGE_MIN THEN "stop"
    ELSE IF rd[1] = MESSAGE_SYNC THEN "drop"
    ELSE IF ~(MESSAGE_MIN <= rd[1] /\ rd[1] <= MESSAGE_MAX) THEN "drop"
    ELSE IF rd[1] > Len(rd) THEN "stop"
    ELSE IF rd[rd[1]] # MESSAGE_SYNC THEN "drop"
    ELSE IF crc16_ccitt(Slice(rd, 0, rd[1] - 3)) # Slice(rd, rd[1] - 3, rd[1] - 1)
         THEN "drop"
    ELSE "emit"

\* ParseIter leaving the frame's closing sync byte in the buffer
ParseIter_KeepTrailer(rd, cmds) ==
    LET block_len == rd[1]
    IN  IF ParseDecision(rd) = "emit"
        THEN [rdata |-> Slice(rd, block_len - 1, Len(rd)),
              in_commands |-> Append(cmds, Slice(rd, 0, block_len))]
        ELSE [rdata |-> Slice(rd, 1, Len(rd)), in_commands |-> cmds]

ParseIter(rd, cmds) ==
    LET block_len == rd[1]
    IN  IF ParseDecision(rd) = "emit"
        THEN [rdata |-> Slice(rd, block_len, Len(rd)),
              in_commands |-> Append(cmds, Slice(rd, 0, block_len))]
        ELSE [rdata |-> Slice(rd, 1, Len(rd)), in_commands |-> cmds]

RECURSIVE parse_incoming_data(_, _)
parse_incoming_data(rd, cmds) ==
    IF ParseDecision(rd) = "stop" THEN [rdata |-> rd, in_commands |-> cmds]
    ELSE LET r == ParseIter(rd, cmds)
         IN  parse_incoming_data(r.rdata, r.in_commands)

(***************************************************************************)
(* The command builders and send_cmd.  A call's outcome is the list of     *)
(* dev.write arguments it made and the exception it raised ("none" when    *)
(* it returned).                                                           *)
(***************************************************************************)
\* n as size little-endian bytes (struct.pack '<H', '<L')
RECURSIVE LittleEndian(_, _)
LittleEndian(n, size) ==
    IF size = 0 THEN << >> ELSE << n % 256 >> \o LittleEndian(n \div 256, size - 1)

\* struct.unpack '<h' of the two bytes lo, hi
Int16(lo, hi) ==
    LET u == lo + 256 * hi IN IF u >= 32768 THEN u - 65536 ELSE u

cmd_display_text(text) == << CMD_DISPLAY_TEXT, Len(text) >> \o text

cmd_buzzer_play(cancel_pplay) ==
    << CMD_BUZZER_PLAY, IF cancel_pplay THEN 1 ELSE 0 >>

\* freq in Hz, duration in milliseconds
cmd_buzzer_queue(freq, duration) ==
    LET cycles == (freq * duration) \div 1000
        ncycles == IF cycles > 1 THEN cycles ELSE 1
        hperiod == (1000000 \div freq) \div 2
    IN  << CMD_BUZZER_QUEUE, 8 >> \o LittleEndian(ncycles, 4)
            \o LittleEndian(hperiod, 2) \o LittleEndian(hperiod, 2)

\* _cmd_fun after cmd_fun returned msg: the module defines no
\* MESSAGE_TRAILER_SIZE, so evaluating the length byte raises NameError
\* and dev.write is not reached
send_cmd(msg) == [writes |-> << >>, raises |-> "NameError"]

beep(freq, duration) ==
    LET q == send_cmd(cmd_buzzer_queue(freq, duration))
        p == send_cmd(cmd_buzzer_play(TRUE))
    IN  IF q.raises # "none" THEN [writes |-> q.writes, raises |-> q.raises,
                                   sends |-> << cmd_buzzer_queue(freq, duration) >>]
        ELSE [writes |-> q.writes \o p.writes, raises |-> p.raises,
              sends |-> << cmd_buzzer_queue(freq, duration), cmd_buzzer_play(TRUE) >>]

(***************************************************************************)
(* The state after __init__ and init(): the reader thread is about to      *)
(* read; the peripheral's bytes are on the link.                           *)
(***************************************************************************)
\* _init_buffer: n_lines rows of line_length zero bytes
line_length == 20
n_lines == 2
BlankBuffer == [y \in 1..n_lines |-> [x \in 1..line_length |-> 0]]

InitWith(streams) ==
    /\ link \in streams
    /\ rdata = << >>
    /\ in_commands = << >>
    /\ pc = "read"
    /\ raised = "none"
    /\ last_knob_pos = 0
    /\ last_btn_state = 0
    /\ last_btn_time = 0
    /\ clock = 0
    /\ events = << >>
    /\ buffer = BlankBuffer
    /\ wire = << >>
    /\ calls = 0
    /\ sends = << >>
    /\ received = << >>
    /\ decoded = << >>
    /\ dispatched = << >>
    /\ crc_run = 65535
    /\ crc_len = 0

(***************************************************************************)
(* read_process: the read, the decode pass, the dispatch loop.             *)
(***************************************************************************)
\* self.rdata.extend(self.dev.read()): blocks until the link holds a byte.
\* Serial.read() asks for one byte; the transport may hand over up to MaxChunk
Read ==
    /\ pc = "read"
    /\ \E k \in 1..MaxChunk :
        /\ k <= Len(link)
        /\ rdata' = rdata \o SubSeq(link, 1, k)
        /\ received' = received \o SubSeq(link, 1, k)
        /\ link' = SubSeq(link, k + 1, Len(link))
    /\ pc' = "parse"
    /\ UNCHANGED << in_commands, raised, last_knob_pos, last_btn_state,
                    last_btn_time, clock, events, buffer, wire, calls, sends,
                    decoded, dispatched >>
    /\ UNCHANGED crcVars

\* one iteration of parse_incoming_data's loop
ParseStep ==
    /\ pc = "parse"
    /\ ParseDecision(rdata) # "stop"
    /\ LET r == ParseIter(rdata, in_commands)
       IN  /\ rdata' = r.rdata
           /\ in_commands' = r.in_commands
           /\ decoded' = IF Len(r.in_commands) > Len(in_commands)
                         THEN Append(decoded, r.in_commands[Len(r.in_commands)])
                         ELSE decoded
    /\ UNCHANGED << link, pc, raised, last_knob_pos, last_btn_state,
                    last_btn_time, clock, events, buffer, wire, calls, sends,
                    received, dispatched >>
    /\ UNCHANGED crcVars

\* parse_incoming_data returns
ParseReturn ==
    /\ pc = "parse"
    /\ ParseDecision(rdata) = "stop"
    /\ pc' = "dispatch"
    /\ UNCHANGED << link, rdata, in_commands, raised, last_knob_pos,
                    last_btn_state, last_btn_time, clock, events, buffer, wire,
                    calls, sends, received, decoded, dispatched >>
    /\ UNCHANGED crcVars

\* Pop taking the newest frame, as self.in_commands.pop() would
Pop_Last(ids) ==
    /\ pc = "dispatch"
    /\ in_commands # << >>
    /\ Head(in_commands)[2] \in ids
    /\ in_commands' = SubSeq(in_commands, 1, Len(in_commands) - 1)
    /\ dispatched' = Append(dispatched, in_commands[Len(in_commands)])

\* cmd = self.in_commands.pop(0), for a frame whose command id is in ids
Pop(ids) ==
    /\ pc = "dispatch"
    /\ in_commands # << >>
    /\ Head(in_commands)[2] \in ids
    /\ in_commands' = Tail(in_commands)
    /\ dispatched' = Append(dispatched, Head(in_commands))

\* an exception leaves the handler, the dispatch loop and read_process
Raise(exc) ==
    /\ pc' = "dead"
    /\ raised' = exc

\* cmd_in_knob_event
DispatchKnob ==
    /\ Pop({CMD_KNOB_EVENT})
    /\ LET data == Head(in_commands)
           pos == Int16(data[3], data[4])
           diff == pos - last_knob_pos
           b == beep(1000, 50)
       IN  IF Len(data) # 7
           THEN /\ Raise("struct.error")
                /\ UNCHANGED << last_knob_pos, clock, events, wire, sends >>
           ELSE IF diff # 0
           THEN \E now \in clock..MaxTime :
                /\ clock' = now
                /\ events' = Append(events, << IF diff > 0 THEN "down" ELSE "up", now >>)
                /\ wire' = wire \o b.writes
                /\ sends' = sends \o b.sends
                /\ IF b.raises # "none"
                   THEN Raise(b.raises) /\ UNCHANGED last_knob_pos
                   ELSE last_knob_pos' = pos /\ UNCHANGED << pc, raised >>
           ELSE /\ last_knob_pos' = pos
                /\ UNCHANGED << pc, raised, clock, events, wire, sends >>
    /\ UNCHANGED << link, rdata, last_btn_state, last_btn_time, buffer, calls,
                    received, decoded >>
    /\ UNCHANGED crcVars

\* cmd_in_button_event
DispatchButton ==
    /\ Pop({CMD_BUTTON_EVENT})
    /\ LET data == Head(in_commands)
           state == data[3]
           b == beep(400, 50)
       IN  IF Len(data) # 6
           THEN /\ Raise("struct.error")
                /\ UNCHANGED << last_btn_state, last_btn_time, clock, events,
                                wire, sends >>
           ELSE \E now \in clock..MaxTime :
                /\ clock' = now
                /\ IF state = 1 /\ last_btn_state = 0
                   THEN /\ last_btn_time' = now
                        /\ last_btn_state' = state
                        /\ UNCHANGED << pc, raised, events, wire, sends >>
                   ELSE IF state = 0 /\ last_btn_state = 1
                   THEN /\ UNCHANGED last_btn_time
                        /\ IF now - last_btn_time >= TicksPerSecond
                           THEN /\ events' = Append(events, << "long_click", now >>)
                                /\ last_btn_state' = state
                                /\ UNCHANGED << pc, raised, wire, sends >>
                           ELSE /\ events' = Append(events, << "click", now >>)
                                /\ wire' = wire \o b.writes
                                /\ sends' = sends \o b.sends
                                /\ IF b.raises # "none"
                                   THEN Raise(b.raises) /\ UNCHANGED last_btn_state
                                   ELSE last_btn_state' = state /\ UNCHANGED << pc, raised >>
                   ELSE /\ last_btn_state' = state
                        /\ UNCHANGED << pc, raised, last_btn_time, events, wire, sends >>
    /\ UNCHANGED << link, rdata, last_knob_pos, buffer, calls, received, decoded >>
    /\ UNCHANGED crcVars

\* cmd_in_buzzer_event
DispatchBuzzer ==
    /\ Pop({CMD_BUZZER_EVENT})
    /\ IF Len(Head(in_commands)) # 6
       THEN Raise("struct.error")
       ELSE UNCHANGED << pc, raised >>
    /\ UNCHANGED << link, rdata, last_knob_pos, last_btn_state, last_btn_time,
                    clock, events, buffer, wire, calls, sends, received, decoded >>
    /\ UNCHANGED crcVars

\* DispatchUnknown looking the id up without the membership test
DispatchUnknown_KeyError ==
    /\ Pop(0..255 \ {CMD_KNOB_EVENT, CMD_BUTTON_EVENT, CMD_BUZZER_EVENT})
    /\ Raise("KeyError")
    /\ UNCHANGED << link, rdata, last_knob_pos, last_btn_state, last_btn_time,
                    clock, events, buffer, wire, calls, sends, received, decoded >>
    /\ UNCHANGED crcVars

\* the else branch of dispatch_in_commands: the id is not in in_cmd_dict
DispatchUnknown ==
    /\ Pop(0..255 \ {CMD_KNOB_EVENT, CMD_BUTTON_EVENT, CMD_BUZZER_EVENT})
    /\ UNCHANGED << link, rdata, pc, raised, last_knob_pos, last_btn_state,
                    last_btn_time, clock, events, buffer, wire, calls, sends,
                    received, decoded >>
    /\ UNCHANGED crcVars

\* dispatch_in_commands returns: the queue is empty
DispatchReturn ==
    /\ pc = "dispatch"
    /\ in_commands = << >>
    /\ pc' = "read"
    /\ UNCHANGED << link, rdata, in_commands, raised, last_knob_pos,
                    last_btn_state, last_btn_time, clock, events, buffer, wire,
                    calls, sends, received, decoded, dispatched >>
    /\ UNCHANGED crcVars

(***************************************************************************)
(* The calls of another thread: write_text, flush, beep.                   *)
(***************************************************************************)
\* the (x, y, data) the other caller stages
WriteArgs == { << 0, 0, << 72, 105 >> >>, << 19, 1, << 72, 105 >> >>,
               << 20, 0, << 72, 105 >> >> }

\* row[x : x + ln] = data[:ln] for a row of line_length bytes and 0 <= x
write_row(row, x, data) ==
    LET room == line_length - x
        least == IF room < Len(data) THEN room ELSE Len(data)
        ln == IF least > 0 THEN least ELSE 0
    IN  [i \in 1..line_length |->
            IF x < i /\ i <= x + ln THEN data[i - x] ELSE row[i]]

write_text ==
    /\ \E a \in WriteArgs :
        buffer' = [buffer EXCEPT ![a[2] + 1] = write_row(buffer[a[2] + 1], a[1], a[3])]
    /\ UNCHANGED << link, rdata, in_commands, pc, raised, last_knob_pos,
                    last_btn_state, last_btn_time, clock, events, wire, calls,
                    sends, received, decoded, dispatched >>
    /\ UNCHANGED crcVars

\* flush that also empties the receive buffer
flush_ClearsInput ==
    /\ calls < MaxSends
    /\ calls' = calls + 1
    /\ LET text == buffer[1] \o buffer[2]
           r == send_cmd(cmd_display_text(text))
       IN  /\ sends' = Append(sends, cmd_display_text(text))
           /\ wire' = wire \o r.writes
           /\ IF r.raises # "none"
              THEN UNCHANGED buffer
              ELSE buffer' = BlankBuffer
    /\ rdata' = << >>
    /\ UNCHANGED << link, in_commands, pc, raised, last_knob_pos,
                    last_btn_state, last_btn_time, clock, events, received,
                    decoded, dispatched >>
    /\ UNCHANGED crcVars

flush ==
    /\ calls < MaxSends
    /\ calls' = calls + 1
    /\ LET text == buffer[1] \o buffer[2]
           r == send_cmd(cmd_display_text(text))
       IN  /\ sends' = Append(sends, cmd_display_text(text))
           /\ wire' = wire \o r.writes
           /\ IF r.raises # "none"
              THEN UNCHANGED buffer
              ELSE buffer' = BlankBuffer
    /\ UNCHANGED << link, rdata, in_commands, pc, raised, last_knob_pos,
                    last_btn_state, last_btn_time, clock, events, received,
                    decoded, dispatched >>
    /\ UNCHANGED crcVars

CallBeep ==
    /\ calls < MaxSends
    /\ calls' = calls + 1
    /\ LET b == beep(1000, 50)
       IN  /\ sends' = sends \o b.sends
           /\ wire' = wire \o b.writes
    /\ UNCHANGED << link, rdata, in_commands, pc, raised, last_knob_pos,
                    last_btn_state, last_btn_time, clock, events, buffer,
                    received, decoded, dispatched >>
    /\ UNCHANGED crcVars

Reader ==
    \/ Read
    \/ ParseStep
    \/ ParseReturn
    \/ DispatchKnob
    \/ DispatchButton
    \/ DispatchBuzzer
    \/ DispatchUnknown
    \/ DispatchReturn

OtherCaller ==
    \/ write_text
    \/ flush
    \/ CallBeep

\* the reader thread and the calls of another thread, interleaved
Init == InitWith(Streams(MaxSharedStreamLen))
Next == Reader \/ OtherCaller
Spec == Init /\ [][Next]_vars

\* the reader thread alone: no other thread calls in
InitReader == InitWith(Streams(MaxStreamLen) \cup LongStreams)
SpecReader == InitReader /\ [][Reader]_vars

(***************************************************************************)
(* One call of crc16_ccitt followed byte by byte: crc_run is the local crc *)
(* after crc_len bytes of the argument.                                    *)
(***************************************************************************)
\* the bytes the argument is made of
CrcBytes == { 0, 1, 13, 15, 16, 17, 85, 126, 127, 128, 170, 200, 240, 241, 254, 255 }

\* one pass of the for loop
CrcFeed ==
    /\ crc_len < MaxCrcLen
    /\ \E byte \in CrcBytes : crc_run' = CrcStep(crc_run, byte)
    /\ crc_len' = crc_len + 1
    /\ UNCHANGED programVars

InitCrc == InitWith({ << >> })
SpecCrc == InitCrc /\ [][CrcFeed]_vars

(***************************************************************************)
(* Properties.                                                             *)
(***************************************************************************)
Last(q) == q[Len(q)]

\* the frame the step hands to a handler, when the step is a dispatch
Dispatching == Len(dispatched') = Len(dispatched) + 1

\* the names of the key events emitted so far
EventNames(ev) == [i \in DOMAIN ev |-> ev[i][1]]

\* f is complete and valid: as long as its first byte says, a length within
\* [MESSAGE_MIN, MESSAGE_MAX], ending in the sync byte, carrying its CRC
ValidFrame(f) ==
    /\ Len(f) >= MESSAGE_MIN
    /\ Len(f) = f[1]
    /\ f[1] <= MESSAGE_MAX
    /\ f[Len(f)] = MESSAGE_SYNC
    /\ << f[Len(f) - 2], f[Len(f) - 1] >> = crc16_ccitt(SubSeq(f, 1, Len(f) - 3))

\* the bytes of one dev.write, decoded from an empty buffer, give exactly one
\* frame, which carries payload, and leave the buffer empty
Carries(bytes, payload) ==
    LET r == parse_incoming_data(bytes, << >>)
    IN  /\ r.rdata = << >>
        /\ Len(r.in_commands) = 1
        /\ Slice(r.in_commands[1], 1, Len(r.in_commands[1]) - 3) = payload

\* C1: every frame parse_incoming_data has queued (still queued, or already
\* dispatched) is complete and valid: its length is its first byte and lies
\* in [5, 128], its last byte is 0x7E, and the two bytes before it are the
\* CRC of the bytes before them.
C1_QueuedFramesValid ==
    /\ \A i \in DOMAIN in_commands : ValidFrame(in_commands[i])
    /\ \A i \in DOMAIN decoded : ValidFrame(decoded[i])

\* C1 witness: two frames were queued from a stream that also held noise.
C1_Witness ==
    /\ Len(decoded) = 2
    /\ Len(received) > Len(decoded[1]) + Len(decoded[2])

\* C2: once a frame with one payload bit flipped and then a valid frame
\* have been received and the decode pass is over, exactly the second
\* frame has been emitted.
C2_Resynchronizes ==
    \A f \in { BtnPress, BtnRelease, BuzzerFree, KnobAt0 } :
        (pc # "parse" /\ received = BtnPressFlipped \o f) => decoded = << f >>

\* C3: after every decode pass, the frames emitted so far and the receive
\* buffer are those of one decode pass over the whole stream received so
\* far, however the reads split the stream.
C3_ChunkingInvisible ==
    pc # "parse" =>
        LET whole == parse_incoming_data(received, << >>)
        IN  /\ decoded = whole.in_commands
            /\ rdata = whole.rdata

\* C3 witness: a button frame arrived in several reads and was emitted whole.
C3_Witness ==
    /\ pc = "dispatch"
    /\ received = BtnPress
    /\ decoded = << BtnPress >>
    /\ MaxChunk < Len(BtnPress)

\* C4: the bytes of every command a builder was asked to send are on the
\* wire and decode to exactly one frame carrying the builder's payload.
C4_EncodeDecodeIdentity ==
    \A i \in DOMAIN sends : i <= Len(wire) /\ Carries(wire[i], sends[i])

C6_ReaderNeverEnds == pc # "dead"

\* C7: dispatching a frame whose command id is not 12, 13 or 16 emits no key
\* event, writes nothing, leaves the knob and button state alone, and the
\* dispatch loop goes on with the frames queued behind it.
C7_UnknownDiscarded ==
    [][ (Dispatching /\ Last(dispatched')[2] \notin
            {CMD_KNOB_EVENT, CMD_BUTTON_EVENT, CMD_BUZZER_EVENT})
        => /\ events' = events
           /\ wire' = wire
           /\ sends' = sends
           /\ << last_knob_pos, last_btn_state, last_btn_time >>' =
                 << last_knob_pos, last_btn_state, last_btn_time >>
           /\ pc' = "dispatch"
           /\ raised' = "none"
           /\ in_commands' = Tail(in_commands) ]_vars

\* C7 witness: an unknown frame was dispatched and the frame queued behind
\* it was dispatched after it.
C7_Witness ==
    /\ received = LengthNoise \o UnknownCmd \o BuzzerFree
    /\ dispatched = << UnknownCmd, BuzzerFree >>

\* C8: dispatching a KnobEvent frame with position p emits 'down' when p is
\* above last_knob_pos, 'up' when below, nothing when equal, and leaves
\* last_knob_pos = p.
C8_KnobDirection ==
    [][ (Dispatching /\ Last(dispatched')[2] = CMD_KNOB_EVENT
            /\ Len(Last(dispatched')) = 7)
        => LET p == Int16(Last(dispatched')[3], Last(dispatched')[4])
           IN  /\ last_knob_pos' = p
               /\ EventNames(events') =
                     IF p > last_knob_pos THEN Append(EventNames(events), "down")
                     ELSE IF p < last_knob_pos THEN Append(EventNames(events), "up")
                     ELSE EventNames(events) ]_vars

\* C9: dispatching a ButtonEvent frame reporting state s leaves
\* last_btn_state = s; a report 1 -> 0 emits 'long_click' when at least one
\* second has passed since the recorded press time and 'click' otherwise;
\* any other report emits nothing; only a report 0 -> 1 moves the recorded
\* press time, to the time of the report.
C9_ButtonTiming ==
    [][ (Dispatching /\ Last(dispatched')[2] = CMD_BUTTON_EVENT
            /\ Len(Last(dispatched')) = 6)
        => LET s == Last(dispatched')[3]
           IN  /\ last_btn_state' = s
               /\ EventNames(events') =
                     IF s = 0 /\ last_btn_state = 1
                     THEN Append(EventNames(events),
                                 IF clock' - last_btn_time >= TicksPerSecond
                                 THEN "long_click" ELSE "click")
                     ELSE EventNames(events)
               /\ last_btn_time' =
                     IF s = 1 /\ last_btn_state = 0 THEN clock' ELSE last_btn_time ]_vars

\* C10: for every beep, the wire holds a write carrying its BuzzerToneQueue
\* command and, as the very next write, one carrying BuzzerPlay with
\* cancel_previous = 1.
C10_BeepFramesAdjacent ==
    \A i \in DOMAIN sends :
        sends[i][1] = CMD_BUZZER_QUEUE =>
            \E j \in DOMAIN wire :
                /\ j + 1 <= Len(wire)
                /\ Carries(wire[j], sends[i])
                /\ Carries(wire[j + 1], cmd_buzzer_play(TRUE))

\* C11: every command a builder was asked to send is on the wire as one
\* write [length] + payload + [crc hi, crc lo] + [0x7E], where length =
\* payload length + 4 is the number of bytes written, the payload starts
\* with its command id, and the CRC is that of the length byte and payload.
C11_FrameLayout ==
    \A i \in DOMAIN sends :
        /\ i <= Len(wire)
        /\ LET w == wire[i]
               p == sends[i]
           IN  /\ Len(w) = Len(p) + 4
               /\ w[1] = Len(w)
               /\ SubSeq(w, 2, Len(p) + 1) = p
               /\ p[1] \in {CMD_DISPLAY_TEXT, CMD_BUZZER_PLAY, CMD_BUZZER_QUEUE}
               /\ << w[Len(w) - 2], w[Len(w) - 1] >> =
                     crc16_ccitt(SubSeq(w, 1, Len(p) + 1))
               /\ w[Len(w)] = MESSAGE_SYNC

\* every byte of s is the sync byte
AllSync(s) == \A i \in DOMAIN s : s[i] = MESSAGE_SYNC

\* every byte of s is outside [MESSAGE_MIN, MESSAGE_MAX]
AllOutOfRange(s) == \A i \in DOMAIN s : s[i] < MESSAGE_MIN \/ s[i] > MESSAGE_MAX

\* C12: when every byte received so far is the sync byte, or every byte
\* received so far is outside [5, 128], no frame has been emitted and after
\* each decode pass fewer than 5 bytes remain in the buffer.
C12_GarbageTolerated ==
    (pc # "parse" /\ (AllSync(received) \/ AllOutOfRange(received)))
        => (decoded = << >> /\ Len(rdata) < MESSAGE_MIN)

\* C12 witness: at least 6 bytes of such garbage have been received and
\* decoded.
C12_Witness ==
    /\ pc = "read"
    /\ Len(received) >= 2 * Len(SyncNoise)
    /\ AllSync(received) \/ AllOutOfRange(received)

\* C13: after each byte step the running crc lies in 0..0xFFFF, so the two
\* bytes returned, crc >> 8 and crc & 0xff, lie in 0..255; before any byte
\* the crc is 0xFFFF, so the empty sequence yields the bytes 0xFF, 0xFF.
C13_CrcInRange ==
    /\ 0 <= crc_run /\ crc_run <= 65535
    /\ crc_run \div 256 <= 255
    /\ crc_len = 0 => << crc_run \div 256, crc_run % 256 >> = << 255, 255 >>
    /\ crc16_ccitt(<< >>) = << 255, 255 >>

\* C13 witness: a whole argument has been consumed and the top bit of the
\* running crc is set.
C13_Witness ==
    /\ crc_len = MaxCrcLen
    /\ crc_run >= 32768

\* the head byte is a candidate length and the buffer holds fewer bytes
WaitingForRest(rd) ==
    /\ rd[1] # MESSAGE_SYNC
    /\ MESSAGE_MIN <= rd[1] /\ rd[1] <= MESSAGE_MAX
    /\ rd[1] > Len(rd)

\* C14: after every decode pass the buffer holds fewer than MESSAGE_MIN
\* bytes, or its head byte is not the sync byte, lies within
\* [MESSAGE_MIN, MESSAGE_MAX] and exceeds the number of bytes buffered.
C14_RawBufferInvariant ==
    pc # "parse" => (Len(rdata) < MESSAGE_MIN \/ WaitingForRest(rdata))

\* C14 witness: a pass has ended with at least MESSAGE_MIN bytes buffered.
C14_Witness ==
    /\ pc = "dispatch"
    /\ Len(rdata) >= MESSAGE_MIN

\* C15: every iteration of the decode loop stops the pass (too few bytes, or
\* the head is a candidate length with fewer bytes buffered), or emits one
\* frame and removes exactly its length bytes from the head, or removes
\* exactly one byte from the head; the buffer shrinks in every iteration
\* that stays in the loop, so a pass terminates.
C15_ForwardProgress ==
    [][pc = "parse" =>
        \/ /\ Len(rdata) < MESSAGE_MIN \/ WaitingForRest(rdata)
           /\ pc' = "dispatch"
           /\ rdata' = rdata /\ in_commands' = in_commands
        \/ /\ pc' = "parse"
           /\ Len(rdata) >= MESSAGE_MIN /\ rdata[1] <= Len(rdata)
           /\ in_commands' = Append(in_commands, SubSeq(rdata, 1, rdata[1]))
           /\ rdata' = SubSeq(rdata, rdata[1] + 1, Len(rdata))
           /\ Len(rdata') < Len(rdata)
        \/ /\ pc' = "parse"
           /\ Len(rdata) >= MESSAGE_MIN
           /\ in_commands' = in_commands
           /\ rdata' = Tail(rdata)]_vars

\* C15 witness: in the middle of a pass, one frame emitted and at least one
\* byte dropped.
C15_Witness ==
    /\ pc = "parse"
    /\ Len(decoded) = 1
    /\ Len(received) > Len(rdata) + Len(decoded[1])

\* C16: a flush sends one DisplayText command whose text is row 0 followed
\* by row 1 of the display buffer as write_text staged it, and leaves the
\* display buffer as 2 rows of 20 zero bytes.
C16_FlushSendsAndBlanks ==
    [][(sends' # sends /\ Last(sends')[1] = CMD_DISPLAY_TEXT) =>
        /\ Last(sends') = cmd_display_text(buffer[1] \o buffer[2])
        /\ Len(wire') = Len(wire) + 1
        /\ Carries(Last(wire'), Last(sends'))
        /\ buffer' = BlankBuffer]_vars

\* the state the reader loop owns: the receive buffer, the frame queue and
\* the knob and button session state
readerOwned ==
    << rdata, in_commands, last_knob_pos, last_btn_state, last_btn_time >>

\* C17: a step of write_text, flush or beep made by another caller (it
\* changes the display buffer or counts a call) leaves the receive buffer,
\* the frame queue and the knob and button session state unchanged, at any
\* point of the reader loop; these change only in steps of a live reader.
C17_SingleOwnership ==
    [][/\ (calls' # calls \/ buffer' # buffer) => UNCHANGED readerOwned
       /\ readerOwned' # readerOwned =>
            (pc \in { "read", "parse", "dispatch" } /\ UNCHANGED << calls, buffer >>)]_vars

\* C17 witness: another caller has staged text and made a sending call while
\* the reader holds undecoded bytes and a queued frame.
C17_Witness ==
    /\ calls > 0
    /\ buffer # BlankBuffer
    /\ rdata # << >>
    /\ in_commands # << >>


\* C18: no frame the decoder has emitted has the sync byte 0x7E as its
\* length byte; a sync byte at the head of a buffer of MESSAGE_MIN bytes or
\* more is dropped, never read as a candidate length.
C18_NoSyncLengthFrame ==
    /\ \A i \in DOMAIN decoded : decoded[i][1] # MESSAGE_SYNC
    /\ (Len(rdata) >= MESSAGE_MIN /\ rdata[1] = MESSAGE_SYNC)
            => ParseDecision(rdata) = "drop"

\* C18 witness: 126 bytes shaped as a frame of length 0x7E, CRC and closing
\* sync byte in place, have all been received and decoded, and no frame
\* came out.
C18_Witness ==
    /\ received = SyncLengthRun
    /\ pc = "dispatch"
    /\ decoded = << >>

\* C19: after every decode pass the receive buffer holds at most
\* MESSAGE_MAX - 1 bytes.
C19_BoundedBuffer ==
    pc # "parse" => Len(rdata) <= MESSAGE_MAX - 1

\* C19 witness: a pass has ended with MESSAGE_MAX - 1 bytes buffered.
C19_Witness ==
    /\ pc = "dispatch"
    /\ Len(rdata) = MESSAGE_MAX - 1

\* each of the n_lines rows is exactly line_length bytes long
RowsKeepShape ==
    /\ DOMAIN buffer = 1..n_lines
    /\ \A y \in 1..n_lines : Len(buffer[y]) = line_length

\* the step is write_text(x, y, data) for some arguments: it changes only
\* columns x .. min(line_length, x + len(data)) - 1 of row y, to the bytes
\* of data in order
WriteTextEffect ==
    \E a \in WriteArgs :
        LET x == a[1]  y == a[2]  data == a[3]
            end == IF x + Len(data) < line_length THEN x + Len(data) ELSE line_length
        IN  \A r \in 1..n_lines : \A c \in 1..line_length :
                buffer'[r][c] = IF r = y + 1 /\ x < c /\ c <= end
                                THEN data[c - x] ELSE buffer[r][c]

\* C20: the display buffer always is 2 rows of exactly 20 bytes; a
\* write_text step changes only columns x .. min(20, x + len(data)) - 1 of
\* row y (data cut at the row end, nothing when x >= 20); and a flush sends
\* one DisplayText frame with exactly 40 text bytes.
C20_SurfaceShape ==
    [][/\ RowsKeepShape /\ RowsKeepShape'
       /\ (buffer' # buffer /\ calls' = calls) => WriteTextEffect
       /\ (sends' # sends /\ Last(sends')[1] = CMD_DISPLAY_TEXT) =>
            /\ Len(Last(sends')) = 2 + n_lines * line_length
            /\ Last(sends')[2] = n_lines * line_length
            /\ Len(wire') = Len(wire) + 1
            /\ Carries(Last(wire'), Last(sends'))]_vars

=============================================================================
